---- MODULE Spec2Model ----
(***************************************************************************)
(* Ember Mug BLE client (custom_components/ember_mug/mug/api.py).         *)
(*                                                                         *)
(* The model follows EmberMugDelegate and EmberMug method by method.  The  *)
(* bluepy Peripheral is the environment: the outcome of every call the     *)
(* client makes on it (connect, pair, getCharacteristics, read, write) is  *)
(* an input of the action that models the calling method.                  *)
(***************************************************************************)
EXTENDS Integers, Sequences, FiniteSets, TLC

(***************************************************************************)
(* Program constants                                                       *)
(***************************************************************************)

\* mug/const.py: characteristic UUIDs (the common suffix
\* "-236c-4c94-8fa9-944a3e5353fa" is left out).
UUID_MUG_NAME == "fc540001"
UUID_CURRENT_TEMP == "fc540002"
UUID_TARGET_TEMP == "fc540003"
UUID_TEMP_UNIT == "fc540004"
UUID_LIQUID_LEVEL == "fc540005"
UUID_TIME_DATE_AND_ZONE == "fc540006"
UUID_BATTERY == "fc540007"
UUID_LIQUID_STATE == "fc540008"
UUID_OTA == "fc54000c"
UUID_MUG_ID == "fc54000d"
UUID_DSK == "fc54000e"
UUID_UDSK == "fc54000f"
UUID_CONTROL_REGISTER_DATA == "fc540011"
UUID_PUSH_EVENT == "fc540012"
UUID_STATISTICS == "fc540013"
UUID_LED == "fc540014"

\* mug/const.py: push event codes
PUSH_EVENT_ID_BATTERY_CHANGED == 1
PUSH_EVENT_ID_CHARGER_CONNECTED == 2
PUSH_EVENT_ID_CHARGER_DISCONNECTED == 3
PUSH_EVENT_ID_TARGET_TEMPERATURE_CHANGED == 4
PUSH_EVENT_ID_DRINK_TEMPERATURE_CHANGED == 5
PUSH_EVENT_ID_AUTH_INFO_NOT_FOUND == 6
PUSH_EVENT_ID_LIQUID_LEVEL_CHANGED == 7
PUSH_EVENT_ID_LIQUID_STATE_CHANGED == 8
PUSH_EVENT_ID_BATTERY_VOLTAGE_STATE_CHANGED == 9

PUSH_EVENT_BATTERY_IDS == {PUSH_EVENT_ID_BATTERY_CHANGED, PUSH_EVENT_ID_CHARGER_CONNECTED, PUSH_EVENT_ID_CHARGER_DISCONNECTED}

\* EmberMug.__init__: the handle the delegate is constructed with,
\* EmberMugDelegate(1)
DelegatePushHandle == 1

\* EmberMug._connect: for i in range(10)
ConnectTries == 10

\* EmberMug.connect: the BTLEManagementError status that is ignored
AlreadyPairedStatus == 19

\* EmberMug.attr_method_map, in insertion order: the attribute names
AttrOrder == <<"mug_name", "mug_id", "led_colour_rgba", "liquid_level", "liquid_state", "current_temp", "target_temp", "temperature_unit", "battery", "udsk", "dsk", "firmware_info", "date_time_zone", "battery_voltage">>

Attrs == {AttrOrder[i] : i \in 1..Len(AttrOrder)}

\* EmberMug.attr_method_map: attribute -> (parse method, UUID)
attr_method_map ==
  [a \in Attrs |->
     CASE a = "mug_name"         -> [parse |-> "bytes_to_str", uuid |-> UUID_MUG_NAME]
       [] a = "mug_id"           -> [parse |-> "parse_mug_id", uuid |-> UUID_MUG_ID]
       [] a = "led_colour_rgba"  -> [parse |-> "list", uuid |-> UUID_LED]
       [] a = "liquid_level"     -> [parse |-> "bytes_to_little_int", uuid |-> UUID_LIQUID_LEVEL]
       [] a = "liquid_state"     -> [parse |-> "bytes_to_little_int", uuid |-> UUID_LIQUID_STATE]
       [] a = "current_temp"     -> [parse |-> "_temp_from_bytes", uuid |-> UUID_CURRENT_TEMP]
       [] a = "target_temp"      -> [parse |-> "_temp_from_bytes", uuid |-> UUID_TARGET_TEMP]
       [] a = "temperature_unit" -> [parse |-> "bytes_to_temp_unit", uuid |-> UUID_TEMP_UNIT]
       [] a = "battery"          -> [parse |-> "parse_battery_info", uuid |-> UUID_BATTERY]
       [] a = "udsk"             -> [parse |-> "decode_byte_string", uuid |-> UUID_UDSK]
       [] a = "dsk"              -> [parse |-> "decode_byte_string", uuid |-> UUID_DSK]
       [] a = "firmware_info"    -> [parse |-> "parse_firmware_info", uuid |-> UUID_OTA]
       [] a = "date_time_zone"   -> [parse |-> "str", uuid |-> UUID_TIME_DATE_AND_ZONE]
       [] a = "battery_voltage"  -> [parse |-> "str", uuid |-> UUID_CONTROL_REGISTER_DATA]]

\* EmberMug.immutable_attrs
immutable_attrs == {"mug_id", "dsk"}

(***************************************************************************)
(* Bounds of the model                                                     *)
(***************************************************************************)

\* push notifications carry a first byte in 0..MaxEventCode (0 and the
\* codes above 9 are unknown to the delegate)
MaxEventCode == 10

\* notifications arrive on handles 1..MaxHandle
MaxHandle == 2

\* a characteristic read returns one of the payloads <<0>> .. <<MaxByte>>,
\* or the two-byte payload <<2, 8>> (2050 little-endian)
MaxByte == 0

\* the device's characteristic table starts at handle 1 + shift,
\* shift in 0..MaxShift
MaxShift == 1

Payloads == {<<b>> : b \in 0..MaxByte} \cup {<<2, 8>>}

\* the characteristics a device exposes, in table order
DeviceCharOrder == <<UUID_PUSH_EVENT, UUID_MUG_NAME, UUID_CURRENT_TEMP, UUID_TARGET_TEMP, UUID_TEMP_UNIT, UUID_LIQUID_LEVEL, UUID_TIME_DATE_AND_ZONE, UUID_BATTERY, UUID_LIQUID_STATE, UUID_OTA, UUID_MUG_ID, UUID_DSK, UUID_UDSK, UUID_CONTROL_REGISTER_DATA, UUID_STATISTICS, UUID_LED>>

DeviceUUIDs == {DeviceCharOrder[i] : i \in 1..Len(DeviceCharOrder)}

\* a device table: uuid -> handle, without the characteristics in missing
DeviceTable(shift, missing) ==
  LET idx(u) == CHOOSE i \in 1..Len(DeviceCharOrder) : DeviceCharOrder[i] = u
  IN [u \in DeviceUUIDs \ missing |-> ((idx(u) - 1 + shift) % Len(DeviceCharOrder)) + 1]

\* firmware variants: the full table, one without the DSK characteristic,
\* one that exposes nothing
MissingChoices == {{}, {UUID_DSK}, DeviceUUIDs}

DeviceTables == {DeviceTable(sh, m) : sh \in 0..MaxShift, m \in MissingChoices}

\* what Peripheral.connect answers to the successive attempts of one
\* _connect call: k times BTLEDisconnectError, then f for ever
\* ("ok", "disc" = BTLEDisconnectError, "other" = any other exception)
Stream(k, f) == [i \in 1..(ConnectTries + 1) |-> IF i <= k THEN "disc" ELSE f]

ConnStreams(K) == {Stream(k, f) : k \in K, f \in {"ok", "other"}} \cup {Stream(ConnectTries + 1, "disc")}

\* connect(): reachable at the first, second or last attempt, or only
\* after the loop gave up
ConnectStreams == ConnStreams({0, 1, ConnectTries - 1, ConnectTries})

\* reconnects inside the other methods: reachable at once, or not at all
ReconnectStreams == ConnStreams({0})

\* Peripheral.pair(): 0 is success, otherwise BTLEManagementError.estat
PairStatuses == {0, AlreadyPairedStatus, AlreadyPairedStatus + 1}

\* what the device returns for a read of each attribute's characteristic
ReadFns == {[a \in Attrs |-> IF a \in immutable_attrs THEN p ELSE q] : p \in Payloads, q \in Payloads}

\* update_char reads one characteristic: the bytes of the others do not
\* matter to it
SameReads == {[a \in Attrs |-> p] : p \in Payloads}

\* the read at which the link is lost ("never": it is not)
DropPoints == {"never", "mug_name", "dsk"}

\* the arguments update_char is called with ("volume" is not registered)
UpdateCharArgs == {"mug_id", "target_temp", "volume"}

(***************************************************************************)
(* State                                                                   *)
(***************************************************************************)
VARIABLES
  link,             \* the Peripheral: "nohelper", "disc" or "conn"
  cache,            \* EmberMug._uuid_handle_cache: uuid -> handle
  mug,              \* the EmberMug attributes of attr_method_map
  queued_updates,   \* EmberMugDelegate.queued_updates: [kind, elems]
  latest_event_id,  \* EmberMugDelegate.latest_event_id (-1 is None)
  op,               \* the method the last step ran, with its argument
  result,           \* how it ended: "ok" or the exception raised
  ret,              \* the value it returned
  io,               \* the calls it made on the Peripheral, in order
  sensor            \* EmberMugSensor: _loop and the place of added_to_hass

vars == <<link, cache, mug, queued_updates, latest_event_id, op, result, ret, io, sensor>>

\* Python containers: a set() and a dict {} are different objects even
\* when both are empty; only the set has .add
PySet(S) == [kind |-> "set", elems |-> S]

PyDict(S) == [kind |-> "dict", elems |-> S]

None == [kind |-> "none", elems |-> {}]

\* attribute values: None, a class-level default that is not bytes, or
\* the bytes readCharacteristic returned
AttrNone == [tag |-> "none", bytes |-> <<>>]

AttrDefault == [tag |-> "default", bytes |-> <<>>]

Raw(b) == [tag |-> "bytes", bytes |-> b]

\* class EmberMug: the class-level attribute defaults
ClassDefaults == [a \in Attrs |-> IF a \in {"led_colour_rgba", "liquid_state", "temperature_unit"} THEN AttrDefault ELSE AttrNone]

\* one call on the Peripheral: its handle and data arguments (0 and <<>>
\* when it has none), whether a write asks for a response, and the
\* exception it raised ("" when the device served it)
Ev(kind, handle, data, resp, err) == [kind |-> kind, handle |-> handle, data |-> data, resp |-> resp, err |-> err]

\* the last call: method name, attribute argument, handle and data
Call(name, attr, handle, data) == [name |-> name, attr |-> attr, handle |-> handle, data |-> data]

\* EmberMugDelegate.__init__ and EmberMug.__init__
Init ==
  /\ link = "nohelper"
  /\ cache = <<>>
  /\ mug = ClassDefaults
  /\ queued_updates = PySet({})
  /\ latest_event_id = -1
  /\ op = Call("__init__", "", 0, <<>>)
  /\ result = "ok"
  /\ ret = None
  /\ io = <<>>
  /\ sensor = [pc |-> "idle", loop |-> FALSE, rm |-> "no"]

(***************************************************************************)
(* The methods are checked under three specifications, one for each part   *)
(* of the state that the methods of the part leave to the others:          *)
(*   SpecQueue    the delegate's queue (handleNotification, pop_queued)    *)
(*   SpecLink     the link and the handle cache (connect, subscribe, ...)  *)
(*   SpecRefresh  the attribute values (update_all, update_char)           *)
(***************************************************************************)

(***************************************************************************)
(* EmberMugDelegate: the notification handler                              *)
(***************************************************************************)

\* handle_push_updates with the names of the spec's data model instead
\* of the registry's keys
PushEventAttrs_SpecNames(event_id) ==
  IF event_id \in PUSH_EVENT_BATTERY_IDS THEN {"battery"}
  ELSE IF event_id = PUSH_EVENT_ID_TARGET_TEMPERATURE_CHANGED THEN {"targetTemperature"}
  ELSE IF event_id = PUSH_EVENT_ID_DRINK_TEMPERATURE_CHANGED THEN {"currentTemperature"}
  ELSE {}

\* handle_push_updates: the if/elif chain from event id to the names
\* added to queued_updates
PushEventAttrs(event_id) ==
  IF event_id \in PUSH_EVENT_BATTERY_IDS THEN {"battery"}
  ELSE IF event_id = PUSH_EVENT_ID_TARGET_TEMPERATURE_CHANGED THEN {"target_temp"}
  ELSE IF event_id = PUSH_EVENT_ID_DRINK_TEMPERATURE_CHANGED THEN {"current_temp"}
  ELSE IF event_id = PUSH_EVENT_ID_AUTH_INFO_NOT_FOUND THEN {}
  ELSE IF event_id = PUSH_EVENT_ID_LIQUID_LEVEL_CHANGED THEN {"liquid_level"}
  ELSE IF event_id = PUSH_EVENT_ID_LIQUID_STATE_CHANGED THEN {"liquid_state"}
  ELSE IF event_id = PUSH_EVENT_ID_BATTERY_VOLTAGE_STATE_CHANGED THEN {"battery_voltage"}
  ELSE {}

\* queued_updates.add(name): a set takes the name, a dict has no .add
QueueAdd(q, names) ==
  IF names = {} THEN [q |-> q, result |-> "ok"]
  ELSE IF q.kind = "set" THEN [q |-> PySet(q.elems \cup names), result |-> "ok"]
  ELSE [q |-> q, result |-> "AttributeError"]

\* handle_push_updates(data) on the delegate state d = [q, latest]
handle_push_updates(d, data) ==
  IF Len(data) = 0 THEN [q |-> d.q, latest |-> d.latest, result |-> "IndexError"]
  ELSE LET event_id == data[1]
           added == QueueAdd(d.q, PushEventAttrs(event_id))
       IN [q |-> added.q, latest |-> event_id, result |-> added.result]

\* the payloads a notification carries
NotificationData == {<<>>} \cup {<<c>> : c \in 0..MaxEventCode}

\* handleNotification(handle, data)
handleNotification(handle, data) ==
  LET d == [q |-> queued_updates, latest |-> latest_event_id]
      r == IF handle = DelegatePushHandle THEN handle_push_updates(d, data)
           ELSE [q |-> d.q, latest |-> d.latest, result |-> "ok"]
  IN /\ queued_updates' = r.q
     /\ latest_event_id' = r.latest
     /\ op' = Call("handleNotification", "", handle, data)
     /\ result' = r.result
     /\ ret' = None
     /\ io' = <<>>
     /\ UNCHANGED <<link, cache, mug, sensor>>

Notify == \E handle \in 1..MaxHandle, data \in NotificationData : handleNotification(handle, data)

(***************************************************************************)
(* EmberMug: the queue of pending updates                                  *)
(***************************************************************************)

\* pop_queued: returns the queue object and rebinds the delegate's
\* attribute to {} (an empty dict)
pop_queued ==
  /\ ret' = queued_updates
  /\ queued_updates' = PyDict({})
  /\ op' = Call("pop_queued", "", 0, <<>>)
  /\ result' = "ok"
  /\ io' = <<>>
  /\ UNCHANGED <<link, cache, mug, latest_event_id, sensor>>

\* a bool as a returned value
PyBool(b) == [kind |-> "bool", elems |-> IF b THEN {"True"} ELSE {"False"}]

\* has_updates as its docstring has it: true if the queue is not empty
has_updates_NotEmpty(q) == Cardinality(q.elems) > 0

\* has_updates: len(self._delegate.queued_updates) > 1
has_updates(q) == Cardinality(q.elems) > 1

HasUpdates ==
  /\ ret' = PyBool(has_updates(queued_updates))
  /\ op' = Call("has_updates", "", 0, <<>>)
  /\ result' = "ok"
  /\ io' = <<>>
  /\ UNCHANGED <<link, cache, mug, queued_updates, latest_event_id, sensor>>

NextQueue == Notify \/ pop_queued \/ HasUpdates

SpecQueue == Init /\ [][NextQueue]_vars

(***************************************************************************)
(* EmberMug: the link                                                      *)
(*                                                                         *)
(* The methods below are operators on a call state                         *)
(*   s = [link, cache, mug, io, result, cret]                              *)
(* result is "ok" until an exception is raised; cret is the value the      *)
(* last _connect returned.                                                 *)
(***************************************************************************)

\* the call state at the start of a method
Enter == [link |-> link, cache |-> cache, mug |-> mug, io |-> <<>>, result |-> "ok", cret |-> FALSE]

Raise(s, exc) == [s EXCEPT !.result = exc]

Issue(s, ev) == [s EXCEPT !.io = Append(@, ev)]

\* is_connected: getState() == "conn"; a BTLEDisconnectError and the
\* "Helper not started" BTLEInternalError both answer False
is_connected(s) ==
  CASE s.link = "conn"     -> TRUE
    [] s.link = "disc"     -> FALSE
    [] s.link = "nohelper" -> FALSE

\* the exception bluepy raises for a request on a link that is down
DownError(s) == IF s.link = "nohelper" THEN "BTLEInternalError" ELSE "BTLEDisconnectError"

\* _connect: the attempts i, i+1, ... of the loop; outs[i] is the
\* answer of Peripheral.connect to attempt i
RECURSIVE ConnectLoop(_, _, _)
ConnectLoop(s, outs, i) ==
  IF i > ConnectTries THEN [s EXCEPT !.cret = FALSE]
  ELSE CASE outs[i] = "ok" ->
              [Issue(s, Ev("connect", 0, <<>>, FALSE, "")) EXCEPT !.link = "conn", !.cret = TRUE]
         [] outs[i] = "disc" ->
              ConnectLoop([Issue(s, Ev("connect", 0, <<>>, FALSE, "BTLEDisconnectError")) EXCEPT !.link = "nohelper"], outs, i + 1)
         [] outs[i] = "other" ->
              Raise([Issue(s, Ev("connect", 0, <<>>, FALSE, "BTLEInternalError")) EXCEPT !.link = "nohelper"], "BTLEInternalError")

_connect(s, outs) == ConnectLoop(s, outs, 1)

\* Peripheral.setSecurityLevel("high")
setSecurityLevel(s) ==
  IF s.link = "conn" THEN Issue(s, Ev("setSecurityLevel", 0, <<>>, FALSE, ""))
  ELSE Raise(Issue(s, Ev("setSecurityLevel", 0, <<>>, FALSE, DownError(s))), DownError(s))

\* pair() without the test of estat: every BTLEManagementError is raised
pair_RaiseAll(s, estat) ==
  LET s1 == Issue(s, Ev("pair", 0, <<estat>>, FALSE, IF estat = 0 THEN "" ELSE "BTLEManagementError"))
  IN IF estat = 0 THEN s1 ELSE Raise(s1, "BTLEManagementError")

\* the try/except around Peripheral.pair(): estat 19 is swallowed
pair(s, estat) ==
  LET s1 == Issue(s, Ev("pair", 0, <<estat>>, FALSE, IF estat = 0 THEN "" ELSE "BTLEManagementError"))
  IN IF estat = 0 THEN s1
     ELSE IF estat # AlreadyPairedStatus THEN Raise(s1, "BTLEManagementError")
     ELSE s1

\* connect()
connect(s, outs1, estat, outs2) ==
  LET s1 == _connect(s, outs1)
      s2 == IF s1.result = "ok" THEN setSecurityLevel(s1) ELSE s1
      s3 == IF s2.result = "ok" THEN pair(s2, estat) ELSE s2
  IN IF s3.result = "ok" THEN _connect(s3, outs2) ELSE s3

\* ensure_characteristics(): reconnect if needed, then fill the cache
\* from getCharacteristics() unless it already holds something
RegistryUUIDs == {attr_method_map[a].uuid : a \in Attrs}

DiscoveredCache(tbl) == [u \in {x \in DOMAIN tbl : x \in RegistryUUIDs \/ x = UUID_PUSH_EVENT} |-> tbl[u]]

ensure_characteristics(s, outs, tbl) ==
  LET s1 == IF ~is_connected(s) THEN _connect(s, outs) ELSE s
  IN IF s1.result # "ok" THEN s1
     ELSE IF DOMAIN s1.cache # {} THEN s1
     ELSE IF s1.link # "conn" THEN Raise(Issue(s1, Ev("getCharacteristics", 0, <<>>, FALSE, DownError(s1))), DownError(s1))
     ELSE [Issue(s1, Ev("getCharacteristics", 0, <<>>, FALSE, "")) EXCEPT !.cache = DiscoveredCache(tbl)]

\* subscribe()
subscribe(s, outs, tbl) ==
  LET s1 == ensure_characteristics(s, outs, tbl)
  IN IF s1.result # "ok" THEN s1
     ELSE IF UUID_PUSH_EVENT \notin DOMAIN s1.cache THEN Raise(s1, "KeyError")
     ELSE IF s1.link # "conn" THEN Raise(Issue(s1, Ev("write", s1.cache[UUID_PUSH_EVENT], <<1, 0>>, TRUE, DownError(s1))), DownError(s1))
     ELSE Issue(s1, Ev("write", s1.cache[UUID_PUSH_EVENT], <<1, 0>>, TRUE, ""))

\* disconnect(): Peripheral.disconnect() stops the helper
disconnect(s) == [Issue(s, Ev("disconnect", 0, <<>>, FALSE, "")) EXCEPT !.link = "nohelper"]

\* a method ends: the call state becomes the program state
Return(s, call) ==
  /\ link' = s.link
  /\ cache' = s.cache
  /\ mug' = s.mug
  /\ io' = s.io
  /\ result' = s.result
  /\ ret' = None
  /\ op' = call
  /\ UNCHANGED <<queued_updates, latest_event_id>>

\* a method called from outside the sensor's routines ends
Leave(s, call) == Return(s, call) /\ UNCHANGED sensor

\* the answers that matter in the current state: a reconnect happens only
\* while the link is down, a discovery only while the cache is empty
OutsNow == IF link = "conn" THEN {Stream(0, "ok")} ELSE ReconnectStreams

TablesNow == IF DOMAIN cache # {} THEN {DeviceTable(0, {})} ELSE DeviceTables

Connect == \E outs1 \in ConnectStreams, estat \in PairStatuses, outs2 \in ReconnectStreams : Leave(connect(Enter, outs1, estat, outs2), Call("connect", "", 0, <<>>))

Subscribe == \E outs \in OutsNow, tbl \in TablesNow : Leave(subscribe(Enter, outs, tbl), Call("subscribe", "", 0, <<>>))

EnsureCharacteristics == \E outs \in OutsNow, tbl \in TablesNow : Leave(ensure_characteristics(Enter, outs, tbl), Call("ensure_characteristics", "", 0, <<>>))

Disconnect == Leave(disconnect(Enter), Call("disconnect", "", 0, <<>>))

\* the device goes out of range: the link drops, no client code runs
LinkDrop ==
  /\ link = "conn"
  /\ link' = "disc"
  /\ op' = Call("link_drop", "", 0, <<>>)
  /\ result' = "ok"
  /\ ret' = None
  /\ io' = <<>>
  /\ UNCHANGED <<cache, mug, queued_updates, latest_event_id, sensor>>

NextLink == Connect \/ Subscribe \/ EnsureCharacteristics \/ Disconnect \/ LinkDrop

SpecLink == Init /\ [][NextLink]_vars

(***************************************************************************)
(* The mug notifies                                                        *)
(***************************************************************************)

\* the mug sends a push event: bluepy hands the delegate the handle of the
\* push-event characteristic, the one subscribe() wrote 0x0100 to on this
\* connection, and the payload
PushNotification ==
  /\ link = "conn"
  /\ UUID_PUSH_EVENT \in DOMAIN cache
  /\ \/ op.name = "subscribe" /\ result = "ok"
     \/ op.name = "handleNotification"
  /\ \E data \in NotificationData : handleNotification(cache[UUID_PUSH_EVENT], data)

NextNotify == Subscribe \/ PushNotification \/ Disconnect \/ LinkDrop

SpecNotify == Init /\ [][NextNotify]_vars

(***************************************************************************)
(* EmberMug: refreshing the attributes                                     *)
(*                                                                         *)
(* e = [outs, tbl, rd, dropAt] is what the device does during the call:    *)
(* its answers to a reconnect, its characteristic table, the bytes each    *)
(* characteristic reads as, and the read at which the link is lost.        *)
(***************************************************************************)

DeviceEnvs(reads, drops) == [outs : OutsNow, tbl : TablesNow, rd : reads, dropAt : drops]

\* update_char without the comparison: every value read is reported as a
\* change and stored
ReadAndStore_NoCompare(s, attr, handle, e) ==
  IF s.link # "conn" THEN Raise(Issue(s, Ev("read", handle, <<>>, FALSE, DownError(s))), DownError(s))
  ELSE IF e.dropAt = attr THEN Raise([Issue(s, Ev("read", handle, <<>>, FALSE, "BTLEDisconnectError")) EXCEPT !.link = "disc"], "BTLEDisconnectError")
  ELSE [Issue(Issue(s, Ev("read", handle, e.rd[attr], FALSE, "")), Ev("log_changed", handle, e.rd[attr], FALSE, "")) EXCEPT !.mug[attr] = Raw(e.rd[attr])]

\* Peripheral.readCharacteristic(handle) for attr, then the compare, the
\* "changed to" log line and the setattr of update_char
ReadAndStore(s, attr, handle, e) ==
  IF s.link # "conn" THEN Raise(Issue(s, Ev("read", handle, <<>>, FALSE, DownError(s))), DownError(s))
  ELSE IF e.dropAt = attr THEN Raise([Issue(s, Ev("read", handle, <<>>, FALSE, "BTLEDisconnectError")) EXCEPT !.link = "disc"], "BTLEDisconnectError")
  ELSE LET new_value == Raw(e.rd[attr])
           s1 == Issue(s, Ev("read", handle, e.rd[attr], FALSE, ""))
       IN IF new_value # s1.mug[attr] THEN [Issue(s1, Ev("log_changed", handle, e.rd[attr], FALSE, "")) EXCEPT !.mug[attr] = new_value] ELSE s1

\* update_char without its membership test: the registry lookup of an
\* unregistered name raises KeyError
update_char_NoMembershipTest(s, attr, e) ==
  LET s1 == ensure_characteristics(s, e.outs, e.tbl)
  IN IF s1.result # "ok" THEN s1
     ELSE IF attr \notin DOMAIN attr_method_map THEN Raise(s1, "KeyError")
     ELSE LET uuid == attr_method_map[attr].uuid
          IN IF uuid \notin DOMAIN s1.cache THEN Raise(s1, "KeyError")
             ELSE ReadAndStore(s1, attr, s1.cache[uuid], e)

\* update_char(attr)
update_char(s, attr, e) ==
  LET s1 == ensure_characteristics(s, e.outs, e.tbl)
  IN IF s1.result # "ok" THEN s1
     ELSE IF attr \notin DOMAIN attr_method_map THEN Raise(s1, "ValueError")
     ELSE LET uuid == attr_method_map[attr].uuid
          IN IF uuid \notin DOMAIN s1.cache THEN Raise(s1, "KeyError")
             ELSE ReadAndStore(s1, attr, s1.cache[uuid], e)

\* the skip test with dsk forgotten in the list of immutable attributes
SkipAttr_OnlyMugId(s, attr) == attr \in {"mug_id"} /\ s.mug[attr] # AttrNone

\* update_all: the test that skips an attribute
SkipAttr(s, attr) == attr \in immutable_attrs /\ s.mug[attr] # AttrNone

\* update_all: the for loop from the i-th attribute on
RECURSIVE UpdateLoop(_, _, _)
UpdateLoop(s, e, i) ==
  IF i > Len(AttrOrder) \/ s.result # "ok" THEN s
  ELSE IF SkipAttr(s, AttrOrder[i]) THEN UpdateLoop(s, e, i + 1)
  ELSE UpdateLoop(update_char(s, AttrOrder[i], e), e, i + 1)

\* update_all()
update_all(s, e) ==
  LET s1 == IF ~is_connected(s) THEN _connect(s, e.outs) ELSE s
  IN UpdateLoop(s1, e, 1)

UpdateChar == \E attr \in UpdateCharArgs : \E e \in DeviceEnvs(SameReads, {"never", attr}) : Leave(update_char(Enter, attr, e), Call("update_char", attr, 0, <<>>))

UpdateAll == \E e \in DeviceEnvs(ReadFns, DropPoints) : Leave(update_all(Enter, e), Call("update_all", "", 0, <<>>))

NextRefresh == UpdateAll \/ UpdateChar \/ Disconnect \/ LinkDrop

SpecRefresh == Init /\ [][NextRefresh]_vars

(***************************************************************************)
(* mug/utils.py: the parse methods of attr_method_map                      *)
(*                                                                         *)
(* A parsed value is [tag, bytes]: tag is its Python type and bytes its    *)
(* content as a sequence of numbers (code points for text, hundredths of   *)
(* a degree for a temperature); [tag |-> "error"] is the exception the     *)
(* parse method raises.                                                    *)
(***************************************************************************)

PyVal(tag, content) == [tag |-> tag, bytes |-> content]

PyError == PyVal("error", <<>>)

Take(b, n) == SubSeq(b, 1, IF n < Len(b) THEN n ELSE Len(b))

Drop(b, n) == SubSeq(b, n + 1, Len(b))

\* int.from_bytes(data, byteorder="little", signed=False)
RECURSIVE bytes_to_little_int(_)
bytes_to_little_int(b) == IF Len(b) = 0 THEN 0 ELSE b[1] + 256 * bytes_to_little_int(Tail(b))

\* int.from_bytes(data, "big")
RECURSIVE bytes_to_big_int(_)
bytes_to_big_int(b) == IF Len(b) = 0 THEN 0 ELSE 256 * bytes_to_big_int(SubSeq(b, 1, Len(b) - 1)) + b[Len(b)]

\* bytes(data).decode("utf8"): the code points of ASCII bytes; a byte
\* above 127 that starts no valid sequence raises UnicodeDecodeError
bytes_to_str(b) == IF \A i \in 1..Len(b) : b[i] < 128 THEN PyVal("str", b) ELSE PyError

\* TEMP_CELSIUS if the integer is 0, else TEMP_FAHRENHEIT ("C" is 67,
\* "F" is 70)
bytes_to_temp_unit(b) == IF bytes_to_little_int(b) = 0 THEN PyVal("str", <<67>>) ELSE PyVal("str", <<70>>)

\* parse_battery_info: data[0] and data[1], an IndexError without them
parse_battery_info(b) == IF Len(b) < 2 THEN PyError ELSE PyVal("dict", <<b[1], IF b[2] = 1 THEN 1 ELSE 0>>)

\* the base64 alphabet: the character code of a 6-bit digit
B64Char(d) ==
  IF d < 26 THEN 65 + d
  ELSE IF d < 52 THEN 97 + (d - 26)
  ELSE IF d < 62 THEN 48 + (d - 52)
  ELSE IF d = 62 THEN 43 ELSE 47

\* base64.encodebytes without the line breaks: 3 bytes to 4 characters,
\* the last group padded with "=" (61)
RECURSIVE Base64(_)
Base64(b) ==
  IF Len(b) = 0 THEN <<>>
  ELSE IF Len(b) = 1 THEN <<B64Char(b[1] \div 4), B64Char((b[1] % 4) * 16), 61, 61>>
  ELSE IF Len(b) = 2 THEN <<B64Char(b[1] \div 4), B64Char((b[1] % 4) * 16 + b[2] \div 16), B64Char((b[2] % 16) * 4), 61>>
  ELSE <<B64Char(b[1] \div 4), B64Char((b[1] % 4) * 16 + b[2] \div 16), B64Char((b[2] % 16) * 4 + b[3] \div 64), B64Char(b[3] % 64)>> \o Base64(Drop(b, 3))

\* decode_byte_string: base64 of data + b"===", line breaks removed
decode_byte_string(b) == PyVal("str", Base64(b \o <<61, 61, 61>>))

\* parse_mug_id: {"mug_id": decode_byte_string(data[:6]),
\* "serial_number": data[7:].decode("utf8")}; the two texts are kept
\* apart by -1
parse_mug_id(b) ==
  LET serial == bytes_to_str(Drop(b, 7))
  IN IF serial = PyError THEN PyError
     ELSE PyVal("dict", decode_byte_string(Take(b, 6)).bytes \o <<-1>> \o serial.bytes)

\* parse_firmware_info: three big-endian integers
parse_firmware_info(b) == PyVal("dict", <<bytes_to_big_int(Take(b, 2)), bytes_to_big_int(Take(Drop(b, 2), 2)), bytes_to_big_int(Drop(b, 4))>>)

\* _temp_from_bytes, in hundredths of a degree: the integer times 0.01,
\* times 9/5 plus 32 when self.temperature_unit == "F", rounded to two
\* decimals
_temp_from_bytes(unit, b) ==
  LET c == bytes_to_little_int(b)
  IN IF unit = PyVal("str", <<70>>) THEN PyVal("float", <<(c * 18 + 5) \div 10 + 3200>>)
     ELSE PyVal("float", <<c>>)

\* the parse method attr_method_map names for attr, applied to b by a
\* client whose temperature_unit is unit
Parse(attr, unit, b) ==
  LET m == attr_method_map[attr].parse
  IN CASE m = "bytes_to_str" -> bytes_to_str(b)
       [] m = "parse_mug_id" -> parse_mug_id(b)
       [] m = "list" -> PyVal("list", b)
       [] m = "bytes_to_little_int" -> PyVal("int", <<bytes_to_little_int(b)>>)
       [] m = "_temp_from_bytes" -> _temp_from_bytes(unit, b)
       [] m = "bytes_to_temp_unit" -> bytes_to_temp_unit(b)
       [] m = "parse_battery_info" -> parse_battery_info(b)
       [] m = "decode_byte_string" -> decode_byte_string(b)
       [] m = "parse_firmware_info" -> parse_firmware_info(b)
       [] m = "str" -> PyVal("repr", b)

(***************************************************************************)
(* EmberMug: writing to the mug                                            *)
(*                                                                         *)
(* A str is the sequence of its characters.  e = [outs1, outs2, tbl] is    *)
(* what the device does during the call: its answers to the _connect of    *)
(* the setter and to the _connect of ensure_characteristics, and its       *)
(* characteristic table.                                                   *)
(***************************************************************************)

\* the printable ASCII characters, code 32 first (the grave accent, code
\* 96, by its name)
Printable == <<" ", "!", "\"", "#", "$", "%", "&", "'", "(", ")", "*", "+", ",", "-", ".", "/", "0", "1", "2", "3", "4", "5", "6", "7", "8", "9", ":", ";", "<", "=", ">", "?", "@", "A", "B", "C", "D", "E", "F", "G", "H", "I", "J", "K", "L", "M", "N", "O", "P", "Q", "R", "S", "T", "U", "V", "W", "X", "Y", "Z", "[", "\\", "]", "^", "_", "grave", "a", "b", "c", "d", "e", "f", "g", "h", "i", "j", "k", "l", "m", "n", "o", "p", "q", "r", "s", "t", "u", "v", "w", "x", "y", "z", "{", "|", "}", "~">>

FirstPrintable == 32

\* ord(c)
Ord(c) == FirstPrintable - 1 + CHOOSE i \in 1..Len(Printable) : Printable[i] = c

\* name.encode("utf8") of an ASCII str: one byte per character
EncodeUtf8(name) == [i \in 1..Len(name) |-> Ord(name[i])]

\* MUG_NAME_REGEX, character by character
MUG_NAME_REGEX == <<"[", "A", "-", "Z", "a", "-", "z", "0", "-", "9", ",", ".", "\\", "[", "\\", "]", "#", "(", ")", "!", "\\", "\"", "\\", "'", ";", ":", "|", "\\", "-", "_", "+", "<", ">", "%", "=", " ", "]", "{", "1", ",", "1", "6", "}">>

\* the strings MUG_NAME_REGEX describes as a pattern: 1 to 16 characters
\* of its character class
MaxNameLen == 16

NameChars == {c \in {Printable[i] : i \in 1..Len(Printable)} : Ord(c) \in (65..90) \cup (97..122) \cup (48..57)} \cup {",", ".", "[", "]", "#", "(", ")", "!", "\"", "'", ";", ":", "|", "-", "_", "+", "<", ">", "%", "=", " "}

ValidName(name) == Len(name) \in 1..MaxNameLen /\ \A i \in 1..Len(name) : name[i] \in NameChars

\* re.match(pattern, string) for a pattern of literal characters, "."
\* and a postfix "*": does the pattern match at the start of the string
RECURSIVE re_match(_, _)
re_match(pattern, string) ==
  IF pattern = <<>> THEN TRUE
  ELSE IF Len(pattern) >= 2 /\ pattern[2] = "*"
       THEN \E k \in 0..Len(string) :
              /\ \A i \in 1..k : pattern[1] = "." \/ pattern[1] = string[i]
              /\ re_match(SubSeq(pattern, 3, Len(pattern)), SubSeq(string, k + 1, Len(string)))
  ELSE /\ string # <<>>
       /\ pattern[1] = "." \/ pattern[1] = string[1]
       /\ re_match(Tail(pattern), Tail(string))

\* set_mug_name: re.match(name, MUG_NAME_REGEX), the name in the place of
\* the pattern and the constant in the place of the string
NameMatches(name) == re_match(name, MUG_NAME_REGEX)

Repeat(c, n) == [i \in 1..n |-> c]

\* the names set_mug_name is called with
MugNames == {<<"o", "k", " ", "n", "a", "m", "e">>, <<"b", "a", "d", "*", "n", "a", "m", "e">>, <<>>, Repeat("a", MaxNameLen + 1), <<".">>, <<".", "*">>, Repeat(".", MaxNameLen), Repeat(".", MaxNameLen + 1)}

\* the temperatures set_target_temp is called with, in thousandths of a
\* degree: 20.5, 0.29, 20.559, 655.35, 655.359, 655.36, -0.009, -0.01
TargetTemps == {20500, 290, 20559, 655350, 655359, 655360, -9, -10}

\* int(target_temp / 0.01): the quotient of the two doubles, truncated
\* toward zero.  0.29 / 0.01 is the double 28.999999999999996 and
\* -0.009 / 0.01 is -0.8999999999999999; the other quotients of
\* TargetTemps are the doubles nearest to their decimal values
IntOfQuotient(milli) ==
  CASE milli = 20500  -> 2050
    [] milli = 290    -> 28
    [] milli = 20559  -> 2055
    [] milli = 655350 -> 65535
    [] milli = 655359 -> 65535
    [] milli = 655360 -> 65536
    [] milli = -9     -> 0
    [] milli = -10    -> -1

UInt16Max == 65535

\* int.to_bytes(2, "little"): OverflowError for a negative integer and
\* for one that needs more than two bytes
to_bytes(n) == IF n \in 0..UInt16Max THEN <<n % 256, n \div 256>> ELSE <<>>

\* the colours set_led_colour is called with
LedColours == {<<255, 255, 255, 255>>, <<0, 0, 0>>, <<256, 0, 0, 0>>}

WriteEnvs == [outs1 : OutsNow, outs2 : OutsNow, tbl : TablesNow]

\* Peripheral.writeCharacteristic(handle, data)
writeCharacteristic(s, handle, data) ==
  IF s.link # "conn" THEN Raise(Issue(s, Ev("write", handle, data, FALSE, DownError(s))), DownError(s))
  ELSE Issue(s, Ev("write", handle, data, FALSE, ""))

\* the first two statements of each setter
ConnectIfDown(s, e) == IF ~is_connected(s) THEN _connect(s, e.outs1) ELSE s

\* set_led_colour(colour)
set_led_colour(s, colour, e) ==
  LET s1 == ConnectIfDown(s, e)
      s2 == ensure_characteristics(s1, e.outs2, e.tbl)
  IN IF s1.result # "ok" THEN s1
     ELSE IF s2.result # "ok" THEN s2
     ELSE IF UUID_LED \notin DOMAIN s2.cache THEN Raise(s2, "KeyError")
     ELSE IF \E i \in 1..Len(colour) : colour[i] \notin 0..255 THEN Raise(s2, "ValueError")
     ELSE writeCharacteristic(s2, s2.cache[UUID_LED], colour)

\* set_target_temp(target_temp)
set_target_temp(s, milli, e) ==
  LET s1 == ConnectIfDown(s, e)
      s2 == ensure_characteristics(s1, e.outs2, e.tbl)
      target == to_bytes(IntOfQuotient(milli))
  IN IF s1.result # "ok" THEN s1
     ELSE IF s2.result # "ok" THEN s2
     ELSE IF target = <<>> THEN Raise(s2, "OverflowError")
     ELSE IF UUID_TARGET_TEMP \notin DOMAIN s2.cache THEN Raise(s2, "KeyError")
     ELSE writeCharacteristic(s2, s2.cache[UUID_TARGET_TEMP], target)

\* set_mug_name(name)
set_mug_name(s, name, e) ==
  LET s1 == ConnectIfDown(s, e)
      s2 == ensure_characteristics(s1, e.outs2, e.tbl)
  IN IF s1.result # "ok" THEN s1
     ELSE IF ~NameMatches(name) THEN Raise(s1, "ValueError")
     ELSE IF s2.result # "ok" THEN s2
     ELSE IF UUID_MUG_NAME \notin DOMAIN s2.cache THEN Raise(s2, "KeyError")
     ELSE writeCharacteristic(s2, s2.cache[UUID_MUG_NAME], EncodeUtf8(name))

\* the argument of a setter as the call record keeps it
SetLedColour == \E colour \in LedColours, e \in WriteEnvs : Leave(set_led_colour(Enter, colour, e), Call("set_led_colour", "", 0, colour))

SetTargetTemp == \E milli \in TargetTemps, e \in WriteEnvs : Leave(set_target_temp(Enter, milli, e), Call("set_target_temp", "", 0, <<milli>>))

SetMugName == \E name \in MugNames, e \in WriteEnvs : Leave(set_mug_name(Enter, name, e), Call("set_mug_name", "", 0, name))

NextWrite == SetLedColour \/ SetTargetTemp \/ SetMugName \/ Disconnect \/ LinkDrop

SpecWrite == Init /\ [][NextWrite]_vars

(***************************************************************************)
(* EmberMug: the snapshot of the attributes                                *)
(***************************************************************************)

\* LIQUID_STATE_LABELS
LIQUID_STATE_LABELS == <<"Unknown", "Empty", "Filling", "Cold (No control)", "Cooling", "Heating", "At Target", "Warm (No control)">>

\* liquid_state_label: LIQUID_STATE_LABELS[self.liquid_state or 0].  The
\* class default 0 and empty bytes are falsy and give the label of 0;
\* bytes that are not empty are used as the key, which the table of
\* integer keys does not hold (KeyError, the empty text here)
liquid_state_label(m) ==
  IF m["liquid_state"] = AttrDefault \/ m["liquid_state"] = Raw(<<>>) THEN LIQUID_STATE_LABELS[1]
  ELSE ""

\* the item the loop of to_dict sees for attr: attr_method_map.items()
\* yields the (parse method, UUID) pair of the registry
RegistryItem(attr) == [tag |-> "tuple", bytes |-> <<attr_method_map[attr].parse, attr_method_map[attr].uuid>>]

\* to_dict(): the dict returned, key -> value
to_dict_data(m) ==
  [k \in Attrs \cup {"liquid_state_label"} |->
     IF k = "liquid_state_label" THEN [tag |-> "str", bytes |-> <<liquid_state_label(m)>>]
     ELSE RegistryItem(k)]

\* to_dict(), which EmberMugSensor.state_attributes returns
to_dict ==
  /\ op' = Call("to_dict", "", 0, <<>>)
  /\ IF liquid_state_label(mug) = ""
     THEN result' = "KeyError" /\ ret' = None
     ELSE result' = "ok" /\ ret' = [kind |-> "dict", elems |-> to_dict_data(mug)]
  /\ io' = <<>>
  /\ UNCHANGED <<link, cache, mug, queued_updates, latest_event_id, sensor>>

NextSnapshot == UpdateAll \/ to_dict \/ Disconnect \/ LinkDrop

SpecSnapshot == Init /\ [][NextSnapshot]_vars

(***************************************************************************)
(* sensor.py: the polling routine of EmberMugSensor                        *)
(*                                                                         *)
(* sensor = [pc, loop, rm]: loop is self._loop; pc is where added_to_hass *)
(* stands: "idle" before it is called, "loop1" at the test of the first    *)
(* while, "connect" before the call of connect(), "sleep30" in             *)
(* time.sleep(30), "loop2" at the test of the second while, "done" after   *)
(* its return, "raised" after an exception left it.  will_remove_from_hass *)
(* runs on another thread; rm is where it stands: "no" before it is        *)
(* called, "disconnect" before its call of disconnect(), "done" after.     *)
(***************************************************************************)

\* bool(v) of a returned value
Truthy(v) == v.kind # "none" /\ v # PyBool(FALSE)

\* what connect() returns: it has no return statement
ConnectReturn == None

\* a step of a sensor routine that calls nothing on the mug
SensorStep(name) ==
  /\ op' = Call(name, "", 0, <<>>)
  /\ result' = "ok"
  /\ ret' = None
  /\ io' = <<>>
  /\ UNCHANGED <<link, cache, mug, queued_updates, latest_event_id>>

\* added_to_hass is called: self._loop = True
AddedToHass ==
  /\ sensor.pc = "idle"
  /\ sensor' = [sensor EXCEPT !.pc = "loop1", !.loop = TRUE]
  /\ SensorStep("added_to_hass")

\* the test of "while self._loop:" of the first loop
ConnectLoopTest ==
  /\ sensor.pc = "loop1"
  /\ sensor' = [sensor EXCEPT !.pc = IF sensor.loop THEN "connect" ELSE "loop2"]
  /\ SensorStep("added_to_hass")

\* "if not self.mug.connect():" of the first loop: the loop has no break,
\* so after connect() the routine sleeps or tests again; an exception of
\* connect() leaves added_to_hass
ConnectCall ==
  /\ sensor.pc = "connect"
  /\ op' = Call("connect", "", 0, <<>>)
  /\ \E outs1 \in ConnectStreams, estat \in PairStatuses, outs2 \in ReconnectStreams :
       LET s == connect(Enter, outs1, estat, outs2)
       IN /\ Return(s, Call("connect", "", 0, <<>>))
          /\ sensor' = [sensor EXCEPT !.pc = IF s.result # "ok" THEN "raised"
                                             ELSE IF ~Truthy(ConnectReturn) THEN "sleep30"
                                             ELSE "loop1"]

\* time.sleep(30) returns
Sleep30 ==
  /\ sensor.pc = "sleep30"
  /\ sensor' = [sensor EXCEPT !.pc = "loop1"]
  /\ UNCHANGED <<link, cache, mug, queued_updates, latest_event_id, op, result, ret, io>>

\* one turn of "while self._loop: self.mug.update_all(); for _ in
\* range(150): time.sleep(2)"
UpdateLoopTurn ==
  /\ sensor.pc = "loop2"
  /\ IF ~sensor.loop
     THEN sensor' = [sensor EXCEPT !.pc = "done"] /\ SensorStep("added_to_hass")
     ELSE /\ op' = Call("update_all", "", 0, <<>>)
          /\ \E e \in DeviceEnvs(ReadFns, DropPoints) :
               LET s == update_all(Enter, e)
               IN /\ Return(s, Call("update_all", "", 0, <<>>))
                  /\ sensor' = [sensor EXCEPT !.pc = IF s.result # "ok" THEN "raised" ELSE "loop2"]

\* will_remove_from_hass: self._loop = False
will_remove_from_hass ==
  /\ sensor.pc # "idle"
  /\ sensor.rm = "no"
  /\ sensor' = [sensor EXCEPT !.loop = FALSE, !.rm = "disconnect"]
  /\ SensorStep("will_remove_from_hass")

\* will_remove_from_hass: self.mug.disconnect()
RemoveDisconnect ==
  /\ sensor.rm = "disconnect"
  /\ Return(disconnect(Enter), Call("disconnect", "", 0, <<>>))
  /\ sensor' = [sensor EXCEPT !.rm = "done"]

\* the steps of the thread that runs added_to_hass
Polling == AddedToHass \/ ConnectLoopTest \/ ConnectCall \/ Sleep30 \/ UpdateLoopTurn

NextSensor == AddedToHass \/ ConnectLoopTest \/ ConnectCall \/ Sleep30 \/ UpdateLoopTurn \/ will_remove_from_hass \/ RemoveDisconnect \/ LinkDrop

SpecSensor == Init /\ [][NextSensor]_vars

\* the thread of added_to_hass keeps running: a call it makes returns or
\* raises, and a sleep ends
SpecSensorFair == SpecSensor /\ WF_vars(Polling)

(***************************************************************************)
(* The claims                                                              *)
(***************************************************************************)

\* the handle the cache holds for an attribute's characteristic (0: none)
HandleOf(c, attr) == IF attr_method_map[attr].uuid \in DOMAIN c THEN c[attr_method_map[attr].uuid] ELSE 0

\* the reads the last call issued for an attribute
ReadsOf(trace, c, attr) == {i \in 1..Len(trace) : trace[i].kind = "read" /\ HandleOf(c, attr) # 0 /\ trace[i].handle = HandleOf(c, attr)}

\* C1: once mug_id or dsk holds a value, no later refresh changes it.
C1_ImmutableNeverOverwritten == [][\A a \in {"mug_id", "dsk"} : mug[a] # AttrNone => mug'[a] = mug[a]]_vars

\* C2: update_all issues no read for mug_id or dsk when it already holds
\* a value and leaves it as it is; a pass that completes has read every
\* other attribute once and holds the bytes read.
C2_UpdateAllSkipsPopulatedImmutables ==
  [][op'.name = "update_all" =>
       \A a \in Attrs :
         IF a \in {"mug_id", "dsk"} /\ mug[a] # AttrNone
         THEN mug'[a] = mug[a] /\ ReadsOf(io', cache', a) = {}
         ELSE result' = "ok" =>
                /\ Cardinality(ReadsOf(io', cache', a)) = 1
                /\ \A i \in ReadsOf(io', cache', a) : io'[i].err = "" /\ mug'[a] = Raw(io'[i].data)]_vars

\* C2 witness: a completed update_all left mug_id alone, without a read,
\* while the device answered the read of dsk in the same pass with other
\* bytes (the device returns the same bytes for both in one pass).
C2_Witness ==
  /\ op.name = "update_all" /\ result = "ok"
  /\ mug["mug_id"] # AttrNone
  /\ ReadsOf(io, cache, "mug_id") = {}
  /\ ReadsOf(io, cache, "dsk") # {}
  /\ mug["dsk"] # mug["mug_id"]
  /\ \A a \in Attrs \ {"mug_id"} : ReadsOf(io, cache, a) # {}

\* C3: while the link is not connected the handle cache is empty.
C3_CacheEmptyWhenNotConnected == link # "conn" => DOMAIN cache = {}

\* C4: pop_queued returns the set of names queued before it and leaves
\* an empty set behind.
C4_DrainReturnsAndLeavesEmptySet ==
  [][op'.name = "pop_queued" =>
       /\ ret'.kind = "set" /\ ret'.elems = queued_updates.elems
       /\ queued_updates' = PySet({})]_vars

\* the table of the spec: event code -> the attribute it marks dirty
MarkedBy(c) ==
  CASE c \in {1, 2, 3} -> {"battery"}
    [] c = 4 -> {"target_temp"}
    [] c = 5 -> {"current_temp"}
    [] c = 7 -> {"liquid_level"}
    [] c = 8 -> {"liquid_state"}
    [] c = 9 -> {"battery_voltage"}
    [] OTHER -> {}

\* the last step was a notification on the push-event handle with a code
PushEventSeen(o) == o.name = "handleNotification" /\ o.handle = DelegatePushHandle /\ o.data # <<>>

\* C5: whenever a notification that marks an attribute arrives, before or
\* after a drain, it is accepted without error and the attribute is in
\* the queue for the next drain.
C5_MarkingAcceptedAndPending ==
  (PushEventSeen(op) /\ MarkedBy(op.data[1]) # {}) =>
     (result = "ok" /\ MarkedBy(op.data[1]) \subseteq queued_updates.elems)

\* C6: a notification with code c on the push-event handle turns the
\* dirty set into its union with M(c), without error.
C6_NotificationAddsMarkedBy ==
  [][PushEventSeen(op') =>
       /\ result' = "ok"
       /\ queued_updates'.elems = queued_updates.elems \cup MarkedBy(op'.data[1])]_vars

\* C7: every name in the queue of pending updates, and every name a drain
\* returns, is a key of attr_method_map.
C7_QueuedNamesAreRegistered ==
  /\ queued_updates.elems \subseteq DOMAIN attr_method_map
  /\ op.name = "pop_queued" => ret.elems \subseteq DOMAIN attr_method_map

\* C7 witness: all six attributes that push events mark are queued.
C7_Witness == queued_updates.kind = "set" /\ Cardinality(queued_updates.elems) = 6

\* the attempts of the first connect loop of connect(): the events
\* before the first one that is not a connect
FirstLoop(trace) == {i \in 1..Len(trace) : \A j \in 1..i : trace[j].kind = "connect"}

\* C8: connect() makes at most 10 attempts in its connect loop and stops
\* at the first success; when all 10 fail with a disconnect error it fails
\* with ConnectionFailed and requests neither security nor pairing.
C8_ConnectFailsAfterTenAttempts ==
  op.name = "connect" =>
    /\ Cardinality(FirstLoop(io)) <= 10
    /\ \A i \in FirstLoop(io) : io[i].err = "" => i + 1 \notin FirstLoop(io)
    /\ (Cardinality(FirstLoop(io)) = 10 /\ \A i \in FirstLoop(io) : io[i].err = "BTLEDisconnectError") =>
         /\ result = "ConnectionFailed"
         /\ \A i \in 1..Len(io) : io[i].kind \notin {"setSecurityLevel", "pair"}

\* C9: in connect(), a pairing error with status 19 is not raised and a
\* further _connect follows it; a pairing error with another status is
\* raised and nothing follows it.
C9_AlreadyPairedIgnored ==
  op.name = "connect" =>
    \A i \in 1..Len(io) : io[i].kind = "pair" =>
      /\ io[i].data = <<19>> =>
           /\ result # "BTLEManagementError"
           /\ i < Len(io)
           /\ \A j \in (i + 1)..Len(io) : io[j].kind = "connect"
           /\ Len(io) - i <= 10
      /\ io[i].data \notin {<<0>>, <<19>>} =>
           /\ result = "BTLEManagementError"
           /\ i = Len(io)

\* C9 witness: connect() met "already paired", connected again and
\* returned.
C9_Witness ==
  /\ op.name = "connect" /\ result = "ok" /\ link = "conn"
  /\ \E i \in 1..Len(io) : io[i].kind = "pair" /\ io[i].data = <<19>> /\ io[Len(io)].kind = "connect" /\ i < Len(io)

\* C10: when connect() returns without error, it has written 0x0100 with
\* a response requested to the cached handle of the push-event
\* characteristic, after a successful link attempt.
C10_ConnectSubscribes ==
  (op.name = "connect" /\ result = "ok") =>
     \E i \in 1..Len(io) :
       /\ io[i].kind = "write" /\ io[i].data = <<1, 0>> /\ io[i].resp
       /\ UUID_PUSH_EVENT \in DOMAIN cache /\ io[i].handle = cache[UUID_PUSH_EVENT]
       /\ \E j \in 1..(i - 1) : io[j].kind = "connect" /\ io[j].err = ""

\* the bytes the last call read for attr (its one served read)
BytesRead(trace, c, attr) == trace[CHOOSE i \in ReadsOf(trace, c, attr) : trace[i].err = ""].data

\* the last call read attr and the device served the read
ServedRead(trace, c, attr) == \E i \in ReadsOf(trace, c, attr) : trace[i].err = ""

\* C11: after a successful update_char(attr) that read the bytes b, the
\* cached value of attr is the parse method of attr applied to b, not b.
C11_CachedValueIsParsed ==
  (op.name = "update_char" /\ result = "ok" /\ ServedRead(io, cache, op.attr)) =>
     /\ mug[op.attr] = Parse(op.attr, mug["temperature_unit"], BytesRead(io, cache, op.attr))
     /\ mug[op.attr].tag # "bytes"

\* C12: when update_char(attr) reads the bytes the previous update_char
\* of the same attribute read, it reports no change and leaves every
\* attribute as it was.
C12_SameBytesNoChange ==
  [][(/\ op.name = "update_char" /\ result = "ok" /\ ServedRead(io, cache, op.attr)
      /\ op'.name = "update_char" /\ result' = "ok" /\ op'.attr = op.attr
      /\ ServedRead(io', cache', op'.attr)
      /\ BytesRead(io', cache', op'.attr) = BytesRead(io, cache, op.attr))
     => (mug' = mug /\ \A i \in 1..Len(io') : io'[i].kind # "log_changed")]_vars

\* C12 witness: an update_char read the bytes the attribute already held
\* from an earlier read, and reported nothing.
C12_Witness ==
  /\ op.name = "update_char" /\ result = "ok" /\ ServedRead(io, cache, op.attr)
  /\ mug[op.attr] = Raw(BytesRead(io, cache, op.attr))
  /\ \A i \in 1..Len(io) : io[i].kind # "log_changed"

\* the call of the last step was ended by ensure_characteristics: its last
\* request is a discovery the link refused, or a connect attempt whose
\* exception _connect does not catch
EnsureFailed(trace) ==
  /\ trace # <<>>
  /\ LET last == trace[Len(trace)]
     IN /\ last.err # ""
        /\ \/ last.kind = "getCharacteristics"
           \/ last.kind = "connect" /\ last.err # "BTLEDisconnectError"

NoReadIn(trace) == \A i \in 1..Len(trace) : trace[i].kind # "read"

\* C13 as stated: update_char with an unregistered attribute name fails
\* with the unknown-attribute error (ValueError), issues no characteristic
\* read and leaves every attribute unchanged.
C13_UnknownAttrAlwaysValueError ==
  [][(op'.name = "update_char" /\ op'.attr \notin Attrs)
     => (result' = "ValueError" /\ NoReadIn(io') /\ mug' = mug)]_vars

\* C13 amended: update_char with an unregistered attribute name fails,
\* with the unknown-attribute error (ValueError) when
\* ensure_characteristics completes and with the connection or discovery
\* error of ensure_characteristics when that is raised first; it issues no
\* characteristic read and leaves every attribute unchanged.
C13_UnknownAttrRejected ==
  [][(op'.name = "update_char" /\ op'.attr \notin Attrs)
     => /\ result' # "ok"
        /\ result' = (IF EnsureFailed(io') THEN io'[Len(io')].err ELSE "ValueError")
        /\ NoReadIn(io')
        /\ mug' = mug]_vars

\* C13 witness: update_char of an unregistered name on a client that holds
\* read attributes and a connected link ended with ValueError.
C13_Witness ==
  /\ op.name = "update_char" /\ op.attr \notin Attrs
  /\ result = "ValueError"
  /\ link = "conn"
  /\ \E a \in Attrs : mug[a].tag = "bytes"

\* C13: the other outcome, ensure_characteristics raising before the
\* membership test is reached
C13_WitnessLinkError ==
  /\ op.name = "update_char" /\ op.attr \notin Attrs
  /\ EnsureFailed(io) /\ result = io[Len(io)].err

\* the place of attr in the order update_all visits the registry
IndexOf(attr) == CHOOSE i \in 1..Len(AttrOrder) : AttrOrder[i] = attr

\* the last call read for attr a payload its parse method raises on
MalformedRead(trace, c, m, attr) ==
  /\ ServedRead(trace, c, attr)
  /\ Parse(attr, m["temperature_unit"], BytesRead(trace, c, attr)) = PyError

\* C14: when update_all reads a payload that is malformed for its
\* attribute, every attribute after it in the registry order that is not
\* an immutable one is still read in the same pass, and the pass reports
\* the failure to its caller.
C14_PassContinuesAndReports ==
  (op.name = "update_all" /\ \E a \in Attrs : MalformedRead(io, cache, mug, a)) =>
     /\ \A a \in Attrs : MalformedRead(io, cache, mug, a) =>
          \A b \in Attrs \ immutable_attrs : IndexOf(b) > IndexOf(a) => ServedRead(io, cache, b)
     /\ result # "ok"

WritesIn(trace) == {i \in 1..Len(trace) : trace[i].kind = "write"}

\* the call was ended by an exception of a connect attempt that _connect
\* does not catch
ConnectRaised(trace) ==
  /\ trace # <<>>
  /\ trace[Len(trace)].kind = "connect"
  /\ trace[Len(trace)].err \notin {"", "BTLEDisconnectError"}

\* C15: set_mug_name with a name that is empty, longer than 16 characters
\* or holds a character outside the allowed set fails with the validation
\* error (ValueError) and writes nothing to the device.
C15_InvalidNameRejected ==
  (op.name = "set_mug_name" /\ ~ValidName(op.data)) =>
     /\ WritesIn(io) = {}
     /\ result = "ValueError" \/ ConnectRaised(io)

\* C16: set_mug_name on a connected client that holds the handle of the
\* name characteristic, with a name of 1 to 16 allowed characters,
\* succeeds and writes exactly the UTF-8 bytes of the name to that handle.
C16_ValidNameWritten ==
  [][(/\ link = "conn" /\ UUID_MUG_NAME \in DOMAIN cache
      /\ op'.name = "set_mug_name" /\ ValidName(op'.data))
     => /\ result' = "ok"
        /\ \E i \in WritesIn(io') :
             /\ WritesIn(io') = {i}
             /\ io'[i].handle = cache[UUID_MUG_NAME]
             /\ io'[i].data = EncodeUtf8(op'.data)
             /\ io'[i].err = ""]_vars

\* round(value / 0.01) for a value given in thousandths of a degree that
\* is not half-way between two hundredths
RoundHundredths(milli) == (milli + 5) \div 10

\* C17: set_target_temp with a value whose hundredths, round(value/0.01),
\* are outside 0..65535 fails and writes nothing; a call that completes
\* with a value inside the range has written its hundredths as 2
\* little-endian bytes to the target-temperature handle.
C17_TargetTempEncoding ==
  op.name = "set_target_temp" =>
     LET h == RoundHundredths(op.data[1])
     IN IF h \notin 0..UInt16Max THEN result # "ok" /\ WritesIn(io) = {}
        ELSE result = "ok" =>
               \E i \in WritesIn(io) :
                  /\ WritesIn(io) = {i}
                  /\ io[i].handle = cache[UUID_TARGET_TEMP]
                  /\ io[i].data = <<h % 256, h \div 256>>

C18_WitnessTrue ==
  /\ op.name = "has_updates"
  /\ Cardinality(queued_updates.elems) = 2
  /\ ret = PyBool(TRUE)

\* C19: a notification that arrives on the handle discovery assigned to
\* the push-event characteristic, with a code that marks an attribute, is
\* taken as a push event: the code is recorded and the attribute is queued.
C19_DiscoveredHandleIsRouted ==
  (/\ op.name = "handleNotification"
   /\ UUID_PUSH_EVENT \in DOMAIN cache /\ op.handle = cache[UUID_PUSH_EVENT]
   /\ Len(op.data) > 0 /\ MarkedBy(op.data[1]) # {})
  => /\ latest_event_id = op.data[1]
     /\ MarkedBy(op.data[1]) \subseteq queued_updates.elems

Requests == {"getCharacteristics", "read", "write"}

\* the last connect attempt before the i-th request of the trace, 0 if
\* the call made none
LastConnectBefore(trace, i) ==
  LET before == {j \in 1..(i - 1) : trace[j].kind = "connect"}
  IN IF before = {} THEN 0 ELSE CHOOSE j \in before : \A k \in before : k <= j

\* C20: update_char, update_all and the three setters issue a discovery, a
\* read or a write only on a connected link: a call that found the link
\* down issues one only after a connect attempt of its own succeeded, and
\* a call whose attempts all failed ends with an error.
C20_RequestsOnlyWhenConnected ==
  op.name \in {"update_char", "update_all", "set_led_colour", "set_target_temp", "set_mug_name"} =>
     /\ \A i \in 1..Len(io) :
          (io[i].kind \in Requests /\ LastConnectBefore(io, i) # 0) => io[LastConnectBefore(io, i)].err = ""
     /\ (\E j \in 1..Len(io) : io[j].kind = "connect") /\ link # "conn" => result # "ok"

\* the unit the bytes read for temperature_unit in the last call stand for
UnitRead(trace, c) == bytes_to_temp_unit(BytesRead(trace, c, "temperature_unit"))

\* C21: after every update_all that completed, temperature_unit holds the
\* unit the device reported and current_temp and target_temp hold the
\* temperatures read, expressed in that unit: raw 2050 is 20.5 with the
\* unit C and 68.9 with the unit F.
C21_TemperaturesInCachedUnit ==
  (/\ op.name = "update_all" /\ result = "ok"
   /\ \A a \in {"temperature_unit", "current_temp", "target_temp"} : ServedRead(io, cache, a))
  => /\ mug["temperature_unit"] = UnitRead(io, cache)
     /\ \A a \in {"current_temp", "target_temp"} :
          mug[a] = _temp_from_bytes(UnitRead(io, cache), BytesRead(io, cache, a))

\* C22: to_dict returns, for every registered attribute, the value the
\* client holds for it at that moment.
C22_SnapshotShowsCachedValues ==
  op.name = "to_dict" =>
     /\ result = "ok"
     /\ \A a \in Attrs : ret.elems[a].tag = mug[a].tag /\ ret.elems[a].bytes = mug[a].bytes

\* C23: in added_to_hass, once connect() has completed without error the
\* routine leaves the first loop and calls update_all (unless the loop
\* flag is cleared or an exception ends the routine first); and once
\* will_remove_from_hass has cleared the flag, added_to_hass ends and
\* starts no update_all.
C23_PollingProgress ==
  /\ (op.name = "connect" /\ result = "ok") ~> (op.name = "update_all" \/ ~sensor.loop \/ sensor.pc = "raised")
  /\ (sensor.pc # "idle" /\ ~sensor.loop) ~> (sensor.pc \in {"done", "raised"})
  /\ [](sensor.pc # "idle" /\ ~sensor.loop => op.name # "update_all")

\* C23, the second half alone, which holds: the first loop ends at its
\* next test and the second loop is entered only with the flag cleared
C23_RemovalEndsBothLoops ==
  /\ (sensor.pc # "idle" /\ ~sensor.loop) ~> (sensor.pc \in {"done", "raised"})
  /\ [](sensor.pc # "idle" /\ ~sensor.loop => op.name # "update_all")

====
